---- MODULE Spec2Model ----
(***************************************************************************)
(* The decode-and-aggregate pipeline of microSWIFTtelemetry.sbd:           *)
(*   message_handler.py   SbdMessage (classification, registry lookup,     *)
(*                        size validation, read)                           *)
(*   definitions.py       the sensor-type layouts and their unpack         *)
(*   message_compiler.py  compile_sbd, _read_sbd and the materializers     *)
(*                                                                         *)
(* Python values are tagged records ([t |-> "int", v |-> 5]), a bytes      *)
(* object is a sequence of 0..255, a str a sequence of code points, a dict *)
(* a function from its keys, a list a sequence.  A call that may raise     *)
(* yields an outcome: Ok(value) or Raise(exception type).                  *)
(***************************************************************************)
EXTENDS Integers, Sequences, FiniteSets, TLC

\* ------------------------------------------------------------------ bounds
\* Messages in one batch handed to compile_sbd.
MaxBatch == 2
\* DecodedRecords in a data_list handed to a materializer directly.
MaxRecords == 3
\* Distinct timestamps of those records.
MaxTime == 2
\* Floats taken as numbers: magnitude below 2^MaxWhole, a multiple of
\* 2^-MaxFraction.
MaxWhole == 10
MaxFraction == 4

\* ----------------------------------------------------------- Python values
None == [t |-> "None"]
PyInt(n) == [t |-> "int", v |-> n]
PyBytes(b) == [t |-> "bytes", v |-> b]
PyFloat(w, neg, mag) == [t |-> "float", w |-> w, neg |-> neg, mag |-> mag]
PyUInt32(low, top) == [t |-> "uint32", low |-> low, top |-> top]
\* A number computed in float64 from integers, as the fraction it rounds.
PyNum(num, den) == [t |-> "num", num |-> num, den |-> den]
NdArray(a) == [t |-> "ndarray", v |-> a]
PyDateTime(s) == [t |-> "datetime", v |-> s]

Ok(v) == [ok |-> TRUE, val |-> v]
Raise(e) == [ok |-> FALSE, exc |-> e]
\* An exception object: its class, and what its message reports.
Exc(type) == [type |-> type]

\* bytes.decode(errors='replace') of a slice of at most one byte: an ASCII
\* byte is its own code point, any other lone byte becomes U+FFFD.
DecodeReplace(b) == [k \in 1..Len(b) |-> IF b[k] < 128 THEN b[k] ELSE 65533]

\* b[lo:hi] of Python, 0-based and clipped to the buffer.
Slice(b, lo, hi) ==
    LET h == IF hi < Len(b) THEN hi ELSE Len(b)
    IN IF lo >= h THEN <<>> ELSE SubSeq(b, lo + 1, h)

\* ord(): one character, or TypeError.
Ord(b) == IF Len(b) = 1 THEN Ok(b[1]) ELSE Raise(Exc("TypeError"))

RECURSIVE _rstrip_null(_)
_rstrip_null(bytestring) ==
    IF bytestring = <<>> THEN <<>>
    ELSE IF bytestring[Len(bytestring)] = 0
         THEN _rstrip_null(SubSeq(bytestring, 1, Len(bytestring) - 1))
         ELSE bytestring

\* ---------------------------------------------------------- struct layouts
\* A struct format string as its (count, code) items, '<' (little-endian, no
\* padding) understood.
Fmt(n, c) == [n |-> n, c |-> c]

definition_pre_2025 ==
    << Fmt(1, "s"), Fmt(1, "b"), Fmt(1, "B"), Fmt(1, "h"), Fmt(3, "e"),
       Fmt(42, "e"), Fmt(2, "e"), Fmt(42, "b"), Fmt(42, "b"), Fmt(42, "b"),
       Fmt(42, "b"), Fmt(42, "B"), Fmt(2, "f"), Fmt(3, "e"), Fmt(1, "f") >>

definition_post_2025 ==
    << Fmt(1, "s"), Fmt(1, "b"), Fmt(1, "b"), Fmt(1, "h"), Fmt(3, "e"),
       Fmt(42, "e"), Fmt(2, "e"), Fmt(42, "b"), Fmt(42, "b"), Fmt(42, "b"),
       Fmt(42, "b"), Fmt(42, "B"), Fmt(2, "f"), Fmt(3, "e"), Fmt(1, "f"),
       Fmt(1, "I") >>

definition_51 ==
    << Fmt(1, "s"), Fmt(1, "b"), Fmt(1, "b"), Fmt(1, "h"), Fmt(3, "f"),
       Fmt(42, "f"), Fmt(10, "f"), Fmt(6, "i") >>

definition_50 ==
    << Fmt(1, "s"), Fmt(1, "b"), Fmt(1, "b"), Fmt(1, "h"), Fmt(3, "f"),
       Fmt(294, "f"), Fmt(7, "f"), Fmt(6, "i") >>

Width(c) ==
    CASE c \in {"s", "b", "B"} -> 1
      [] c \in {"h", "e"} -> 2
      [] c \in {"f", "i", "I"} -> 4

RECURSIVE calcsize(_)
calcsize(fmt) ==
    IF fmt = <<>> THEN 0
    ELSE Head(fmt).n * Width(Head(fmt).c) + calcsize(Tail(fmt))

\* Little-endian integers.  The top byte is folded in last and signed first,
\* so that every intermediate value stays within 32 bits.
RECURSIVE LEUnsigned(_)
LEUnsigned(b) ==
    IF b = <<>> THEN 0 ELSE b[1] + 256 * LEUnsigned(Tail(b))

\* A signed format read without its sign.
SignDropped(b) == LEUnsigned(b)

LESigned(b) ==
    LET top == b[Len(b)]
        low == LEUnsigned(SubSeq(b, 1, Len(b) - 1))
        hi == IF top >= 128 THEN top - 256 ELSE top
    IN IF Len(b) = 1 THEN hi
       ELSE IF Len(b) = 2 THEN hi * 256 + low
       ELSE hi * 16777216 + low

\* One item of struct.unpack.  A float keeps its sign and its magnitude bits:
\* the value of a non-negative float is monotone in them, and 999.0 has one
\* pattern per width.  An unsigned 32-bit item keeps its top byte apart.
Item(c, b) ==
    CASE c = "s" -> PyBytes(b)
      [] c \in {"b", "h", "i"} -> PyInt(LESigned(b))
      [] c = "B" -> PyInt(LEUnsigned(b))
      [] c = "I" -> PyUInt32(LEUnsigned(SubSeq(b, 1, 3)), b[4])
      [] c = "e" -> PyFloat(2, b[2] >= 128, b[1] + 256 * (b[2] % 128))
      [] c = "f" -> PyFloat(4, b[4] >= 128,
                            LEUnsigned(SubSeq(b, 1, 3)) + 16777216 * (b[4] % 128))

RECURSIVE UnpackItems(_, _, _)
UnpackItems(c, n, b) ==
    IF n = 0 THEN <<>>
    ELSE <<Item(c, SubSeq(b, 1, Width(c)))>>
         \o UnpackItems(c, n - 1, SubSeq(b, Width(c) + 1, Len(b)))

RECURSIVE UnpackFmt(_, _)
UnpackFmt(fmt, b) ==
    IF fmt = <<>> THEN <<>>
    ELSE LET w == Head(fmt).n * Width(Head(fmt).c)
         IN UnpackItems(Head(fmt).c, Head(fmt).n, SubSeq(b, 1, w))
            \o UnpackFmt(Tail(fmt), SubSeq(b, w + 1, Len(b)))

\* struct.unpack(fmt, buffer): struct.error unless the buffer has exactly
\* calcsize(fmt) bytes.
struct_unpack(fmt, b) ==
    IF Len(b) # calcsize(fmt) THEN Raise(Exc("struct.error"))
    ELSE Ok(UnpackFmt(fmt, b))


\* ------------------------------------------------------------ definitions.py
VARIABLE_DEFINITIONS ==
    { "id", "datetime", "significant_height", "peak_period", "peak_direction",
      "energy_density", "frequency", "a1", "b1", "a2", "b2", "check",
      "u_mean", "v_mean", "z_mean", "latitude", "longitude", "temperature",
      "salinity", "voltage", "sensor_type", "com_port", "payload_size" }

\* {key: 0 for key in VARIABLE_DEFINITIONS.keys()}
zero_swift_dict == [var \in VARIABLE_DEFINITIONS |-> PyInt(0)]

init_swift_dict == [var \in VARIABLE_DEFINITIONS |-> None]

\* 'microSWIFT ' as code points.
MicroSwiftPrefix == <<109, 105, 99, 114, 111, 83, 87, 73, 70, 84, 32>>

IsDigit(c) == c >= 48 /\ c <= 57

\* re.search(r'(microSWIFT \d{3})', filename): the leftmost match starts at k.
IdMatchAt(filename, k) ==
    /\ k + 13 <= Len(filename)
    /\ SubSeq(filename, k, k + 10) = MicroSwiftPrefix
    /\ \A j \in 11..13 : IsDigit(filename[k + j])

id_from_filename(filename) ==
    LET starts == {k \in 1..Len(filename) : IdMatchAt(filename, k)}
    IN IF starts = {} THEN None
       ELSE LET k == CHOOSE m \in starts : \A n \in starts : m <= n
            IN [t |-> "str", v |-> SubSeq(filename, k + 11, k + 13)]

\* The registry of message_handler.py: sensor type id -> class.
SENSOR_TYPES ==
    (50 :> "SensorType50") @@ (51 :> "SensorType51") @@ (52 :> "SensorType52")

\* Every sensor type's __init__(self, sbd_content, sbd_filename): a call
\* with another number of positional arguments is a TypeError.
SensorTypeInit(cls, args) ==
    IF Len(args) # 2 THEN Raise(Exc("TypeError"))
    ELSE Ok([cls |-> cls, sbd_content |-> args[1], sbd_filename |-> args[2]])

definition(inst) ==
    CASE inst.cls = "SensorType52" ->
            IF Len(inst.sbd_content) = calcsize(definition_post_2025)
            THEN definition_post_2025
            ELSE definition_pre_2025
      [] inst.cls = "SensorType51" -> definition_51
      [] inst.cls = "SensorType50" -> definition_50

expected_file_size(inst) == calcsize(definition(inst))

\* x == 999 for an unpacked float x (999.0 as float16 or float32 bits).
IsSentinel(x) ==
    /\ ~x.neg
    /\ x.mag = (IF x.w = 2 THEN 25550 ELSE 1148829696)

\* np.ones(np.shape(energy_density))
OnesAxis(energy_density) ==
    NdArray([k \in 1..Len(energy_density.v) |-> PyNum(1, 1)])

\* 999*np.ones(np.shape(energy_density))
SentinelAxis(energy_density) ==
    NdArray([k \in 1..Len(energy_density.v) |-> PyNum(999, 1)])

\* np.asarray(items)/divisor for integer items.
Scaled(items, divisor) ==
    NdArray([k \in 1..Len(items) |-> PyNum(items[k].v, divisor)])

\* data[lo:hi] and data[k] of a 0-based tuple.
At(data, k) == data[k + 1]
Span(data, lo, hi) == SubSeq(data, lo + 1, hi)

\* Calendar arithmetic of datetime: seconds since 1970-01-01T00:00:00Z.
IsLeap(y) == (y % 4 = 0 /\ y % 100 # 0) \/ y % 400 = 0

DaysInMonth(y, m) ==
    CASE m \in {1, 3, 5, 7, 8, 10, 12} -> 31
      [] m \in {4, 6, 9, 11} -> 30
      [] m = 2 -> IF IsLeap(y) THEN 29 ELSE 28

DaysFromCivil(y, m, d) ==
    LET yy == IF m <= 2 THEN y - 1 ELSE y
        era == yy \div 400
        yoe == yy - era * 400
        mp == IF m > 2 THEN m - 3 ELSE m + 9
        doy == (153 * mp + 2) \div 5 + d - 1
        doe == yoe * 365 + yoe \div 4 - yoe \div 100 + doy
    IN era * 146097 + doe - 719468

\* datetime(year, month, day, hour, minute, second, tzinfo=utc): ValueError
\* for a field out of range.  Timestamps are whole seconds; the years are
\* those whose seconds fit 32 bits (1902..2037), the others are kept at the
\* nearer end of that range.
datetime(y, m, d, hh, mm, ss) ==
    IF \/ y < 1 \/ y > 9999 \/ m < 1 \/ m > 12
       \/ d < 1 \/ d > DaysInMonth(y, m)
       \/ hh < 0 \/ hh > 23 \/ mm < 0 \/ mm > 59 \/ ss < 0 \/ ss > 59
    THEN Raise(Exc("ValueError"))
    ELSE IF y < 1902 THEN Ok(PyDateTime(-2147483647))
    ELSE IF y > 2037 THEN Ok(PyDateTime(2147483647))
    ELSE Ok(PyDateTime(DaysFromCivil(y, m, d) * 86400 + hh * 3600 + mm * 60 + ss))

RECURSIVE Pow2(_)
Pow2(n) == IF n = 0 THEN 1 ELSE 2 * Pow2(n - 1)

\* datetime.fromtimestamp(x, tz=utc) for an unpacked 4-byte float x: NaN is
\* a ValueError, an infinity an OverflowError.  The result is kept to whole
\* seconds and to the 32-bit range, as for datetime.
fromtimestamp(x) ==
    LET e == x.mag \div 8388608
        m == x.mag % 8388608
        sig == IF e = 0 THEN m ELSE 8388608 + m
        whole == IF e >= 158 THEN 2147483647
                 ELSE IF e >= 150 THEN sig * Pow2(e - 150)
                 ELSE IF e >= 127 THEN sig \div Pow2(150 - e)
                 ELSE 0
    IN IF e = 255 THEN Raise(Exc(IF m = 0 THEN "OverflowError" ELSE "ValueError"))
       ELSE Ok(PyDateTime(IF x.neg THEN 0 - whole ELSE whole))

\* The value of an unpacked float as a fraction num/den, den a power of two:
\* a 4-byte float is sig * 2^(e - 150), a 2-byte float sig * 2^(e - 25).
\* Halving is exact while the significand is even.
RECURSIVE Dyadic(_, _)
Dyadic(sig, exp) ==
    IF sig = 0 THEN [sig |-> 0, exp |-> 0]
    ELSE IF exp < 0 /\ sig % 2 = 0 THEN Dyadic(sig \div 2, exp + 1)
    ELSE [sig |-> sig, exp |-> exp]

\* The significand and the exponent of an unpacked float.
Significand(x) ==
    LET bits == IF x.w = 2 THEN 1024 ELSE 8388608
        bias == IF x.w = 2 THEN 25 ELSE 150
    IN IF x.mag \div bits = 0 THEN Dyadic(x.mag % bits, 1 - bias)
       ELSE Dyadic(bits + (x.mag % bits), (x.mag \div bits) - bias)

IsFinite(x) == x.mag \div (IF x.w = 2 THEN 1024 ELSE 8388608) # (IF x.w = 2 THEN 31 ELSE 255)

Fits(d) ==
    /\ d.exp >= 0 - MaxFraction
    /\ d.exp <= MaxWhole
    /\ d.sig < Pow2(MaxWhole)
    /\ (d.exp > 0 => d.sig * Pow2(d.exp) < Pow2(MaxWhole))
    /\ (d.exp < 0 => d.sig < Pow2(MaxWhole - d.exp))

Fraction(neg, d) ==
    PyNum((IF neg THEN 0 - 1 ELSE 1) * (IF d.exp > 0 THEN d.sig * Pow2(d.exp) ELSE d.sig),
          IF d.exp < 0 THEN Pow2(0 - d.exp) ELSE 1)

\* float(x) for a finite unpacked float below 2^MaxWhole in magnitude that is
\* a multiple of 2^-MaxFraction, so that the arithmetic on it stays within
\* 32 bits; the item itself otherwise.
FractionIf(x, d) == IF IsFinite(x) /\ Fits(d) THEN Fraction(x.neg, d) ELSE x

FloatValue(x) == FractionIf(x, Significand(x))

IsNum(x) == x.t = "num"

\* ceil(num/den) for den > 0.
Ceil(num, den) ==
    IF num % den = 0 THEN num \div den ELSE (num \div den) + 1

\* The elements start + k*step of an arange, over the denominator den; none
\* when size is not positive.
ArangeArray(start, step, den, size) ==
    Ok(NdArray([k \in 1..size |-> PyNum(start + (k - 1) * step, den)]))

\* ceil((stop - start)/step)
ArangeSize(start, stop, step) ==
    IF step > 0 THEN Ceil(stop - start, step) ELSE Ceil(start - stop, 0 - step)

\* np.arange(a, b + c, c) for three numbers.
ArangeOf(a, b, c) ==
    ArangeArray(a.num * b.den * c.den, c.num * a.den * b.den, a.den * b.den * c.den,
                ArangeSize(a.num * b.den * c.den,
                           b.num * a.den * c.den + c.num * a.den * b.den,
                           c.num * a.den * b.den))

\* np.arange(a, b + c, c) for the values a, b, c of three floats: the floats
\* themselves when a value is not taken as a number.
ArangeIf(fmin, fmax, fstep, a, b, c) ==
    IF ~(IsNum(a) /\ IsNum(b) /\ IsNum(c))
    THEN Ok([t |-> "arange", fmin |-> fmin, fmax |-> fmax, fstep |-> fstep])
    ELSE IF c.num = 0 THEN Raise(Exc("ValueError"))
    ELSE ArangeOf(a, b, c)

\* np.arange(fmin, fmax + fstep, fstep) for floats: ceil((stop - start)/step)
\* elements start + k*step, none when that is negative; a zero step is a
\* ValueError (the length is infinite or not a number).
arange(fmin, fmax, fstep) ==
    ArangeIf(fmin, fmax, fstep, FloatValue(fmin), FloatValue(fmax), FloatValue(fstep))

\* fnum points from a to b, both ends included.
LinspaceOf(a, b, fnum) ==
    NdArray([k \in 1..fnum |->
                PyNum(a.num * b.den * (fnum - 1) + (k - 1) * (b.num * a.den - a.num * b.den),
                      a.den * b.den * (fnum - 1))])

LinspaceIf(fmin, fmax, fnum, a, b) ==
    IF ~(IsNum(a) /\ IsNum(b))
    THEN [t |-> "linspace", fmin |-> fmin, fmax |-> fmax, fnum |-> fnum]
    ELSE LinspaceOf(a, b, fnum)

\* np.linspace(fmin, fmax, fnum)
linspace(fmin, fmax, fnum) ==
    LinspaceIf(fmin, fmax, fnum, FloatValue(fmin), FloatValue(fmax))

\* The frequency axis of a legacy record: lines 162-168.
Frequency51(data) ==
    IF ~IsSentinel(At(data, 49)) /\ ~IsSentinel(At(data, 50))
    THEN arange(At(data, 49), At(data, 50), At(data, 51))
    ELSE Ok(SentinelAxis(NdArray(Span(data, 7, 49))))

\* The record of a legacy message from its unpacked items, its frequency
\* axis and its datetime, in the order the code computes them.
Record51(inst, data, frequency, stamp) ==
    IF ~frequency.ok THEN frequency
    ELSE IF ~stamp.ok THEN stamp
    ELSE Ok([init_swift_dict EXCEPT
               !["id"] = id_from_filename(inst.sbd_filename),
               !["sensor_type"] = At(data, 1),
               !["com_port"] = At(data, 2),
               !["payload_size"] = At(data, 3),
               !["significant_height"] = At(data, 4),
               !["peak_period"] = At(data, 5),
               !["peak_direction"] = At(data, 6),
               !["energy_density"] = NdArray(Span(data, 7, 49)),
               !["frequency"] = frequency.val,
               !["latitude"] = At(data, 52),
               !["longitude"] = At(data, 53),
               !["temperature"] = At(data, 54),
               !["voltage"] = At(data, 55),
               !["u_mean"] = At(data, 56),
               !["v_mean"] = At(data, 57),
               !["z_mean"] = At(data, 58),
               !["datetime"] = stamp.val])

Unpacked51(inst, unpacked) ==
    IF ~unpacked.ok THEN unpacked
    ELSE Record51(inst, unpacked.val, Frequency51(unpacked.val),
                  datetime(At(unpacked.val, 59).v, At(unpacked.val, 60).v,
                           At(unpacked.val, 61).v, At(unpacked.val, 62).v,
                           At(unpacked.val, 63).v, At(unpacked.val, 64).v))

\* SensorType51.unpack
Unpack51(inst) ==
    Unpacked51(inst, struct_unpack(definition(inst), inst.sbd_content))

\* The frequency axis of a compact record: lines 116-122.
Frequency52(data) ==
    IF ~IsSentinel(At(data, 49)) /\ ~IsSentinel(At(data, 50))
    THEN linspace(At(data, 49), At(data, 50), Len(Span(data, 7, 49)))
    ELSE SentinelAxis(NdArray(Span(data, 7, 49)))

\* The record of a compact message from its unpacked items and its datetime.
Record52(inst, data, stamp) ==
    IF ~stamp.ok THEN stamp
    ELSE Ok([init_swift_dict EXCEPT
               !["id"] = id_from_filename(inst.sbd_filename),
               !["sensor_type"] = At(data, 1),
               !["com_port"] = At(data, 2),
               !["payload_size"] = At(data, 3),
               !["significant_height"] = At(data, 4),
               !["peak_period"] = At(data, 5),
               !["peak_direction"] = At(data, 6),
               !["energy_density"] = NdArray(Span(data, 7, 49)),
               !["frequency"] = Frequency52(data),
               !["a1"] = Scaled(Span(data, 51, 93), 100),
               !["b1"] = Scaled(Span(data, 93, 135), 100),
               !["a2"] = Scaled(Span(data, 135, 177), 100),
               !["b2"] = Scaled(Span(data, 177, 219), 100),
               !["check"] = Scaled(Span(data, 219, 261), 10),
               !["latitude"] = At(data, 261),
               !["longitude"] = At(data, 262),
               !["temperature"] = At(data, 263),
               !["salinity"] = At(data, 264),
               !["voltage"] = At(data, 265),
               !["datetime"] = stamp.val])

Unpacked52(inst, unpacked) ==
    IF ~unpacked.ok THEN unpacked
    ELSE Record52(inst, unpacked.val, fromtimestamp(At(unpacked.val, 266)))

\* SensorType52.unpack
Unpack52(inst) ==
    Unpacked52(inst, struct_unpack(definition(inst), inst.sbd_content))

\* SensorType50.unpack
Unpack50(inst) == Raise(Exc("NotImplementedError"))

unpack(inst) ==
    CASE inst.cls = "SensorType52" -> Unpack52(inst)
      [] inst.cls = "SensorType51" -> Unpack51(inst)
      [] inst.cls = "SensorType50" -> Unpack50(inst)


\* -------------------------------------------------------- message_handler.py
PAYLOAD_START == 0

\* '7' as a str.
Marker == <<55>>

\* SbdMessage.__init__: the file is read once, trailing null bytes are
\* stripped, and the size is that of the stripped content.
SbdMessage(file) ==
    LET file_content == _rstrip_null(file.content)
    IN [file |-> file,
        file_content |-> file_content,
        file_size |-> Len(file_content)]

payload_type_id(m) ==
    DecodeReplace(Slice(m.file_content, PAYLOAD_START, PAYLOAD_START + 1))

sensor_type_id(m) ==
    IF payload_type_id(m) = Marker
    THEN LET code == Ord(Slice(m.file_content, PAYLOAD_START + 1,
                               PAYLOAD_START + 2))
         IN IF code.ok THEN Ok(PyInt(code.val)) ELSE code
    ELSE Ok(None)

get_sensor_type_by_id(m) ==
    LET id == sensor_type_id(m)
    IN IF ~id.ok THEN id
       ELSE IF id.val = None THEN Raise(Exc("ValueError"))
       ELSE IF id.val.v \in DOMAIN SENSOR_TYPES THEN Ok(SENSOR_TYPES[id.val.v])
       ELSE Raise(Exc("KeyError"))

\* The sensor_type property: the class is called with the content alone.
sensor_type(m) ==
    LET cls == get_sensor_type_by_id(m)
    IN IF ~cls.ok THEN cls
       ELSE SensorTypeInit(cls.val, <<m.file_content>>)

\* The ValueError of validate_file_size, with the two sizes it reports.
SizeError(expected, received) ==
    [type |-> "ValueError", expected |-> expected, received |-> received]

IsSizeError(e) == e.type = "ValueError" /\ "expected" \in DOMAIN e

validate_file_size(m) ==
    LET st == sensor_type(m)
    IN IF ~st.ok THEN st
       ELSE IF m.file_size # expected_file_size(st.val)
            THEN Raise(SizeError(expected_file_size(st.val), m.file_size))
            ELSE Ok(None)

\* SbdMessage.read: (swift, error_message), or the exception that leaves it.
read(m) ==
    LET error_message == [file_name |-> m.file.name, error |-> None]
        id == sensor_type_id(m)
    IN IF ~id.ok THEN id
       ELSE IF id.val # None
       THEN LET valid == validate_file_size(m)
            IN IF ~valid.ok THEN valid
               ELSE LET swift == unpack(sensor_type(m).val)
                    IN IF ~swift.ok THEN swift
                       ELSE Ok([swift |-> swift.val,
                                error_message |-> error_message])
       ELSE Ok([swift |-> <<>>,
                error_message |->
                    [error_message EXCEPT !.error = PyBytes(m.file_content)]])

\* ------------------------------------------------------- message_compiler.py
\* `if data:` and `if data_dict:` -- a dict is true when it has a key.
Truthy(d) == DOMAIN d # {}

RECURSIVE ValuesOf(_, _, _)
ValuesOf(dict_list, key, k) ==
    IF k > Len(dict_list) THEN <<>>
    ELSE (IF key \in DOMAIN dict_list[k] THEN <<dict_list[k][key]>> ELSE <<>>)
         \o ValuesOf(dict_list, key, k + 1)

\* _combine_dict_list: every key of any dict, with the values in list order.
_combine_dict_list(dict_list) ==
    LET keys == UNION {DOMAIN dict_list[k] : k \in 1..Len(dict_list)}
    IN [key \in keys |-> ValuesOf(dict_list, key, 1)]

IndexOrders(n) ==
    {p \in [1..n -> 1..n] : \A a, b \in 1..n : a # b => p[a] # p[b]}

\* np.argsort(keys) and the indexer of DataFrame.sort_index / sort_values,
\* all with the default kind='quicksort': an index order that makes the keys
\* ascending.  That kind is documented as not stable, so the order among
\* equal keys is whatever the library's introsort leaves.
ArgSort(keys, less) ==
    {p \in IndexOrders(Len(keys)) :
        \A a \in 1..(Len(keys) - 1) : <<p[a + 1], p[a]>> \notin less}

Take(a, index) == [k \in 1..Len(index) |-> a[index[k]]]

DateTimeLess(a, b) == a.v < b.v

\* The pairs of positions <<a, b>> with keys[a] < keys[b], for datetime keys.
DateTimeOrder(keys) ==
    {ab \in (1..Len(keys)) \X (1..Len(keys)) : DateTimeLess(keys[ab[1]], keys[ab[2]])}

\* Lexicographic order of two str.
RECURSIVE StrLess(_, _)
StrLess(a, b) ==
    IF b = <<>> THEN FALSE
    ELSE IF a = <<>> THEN TRUE
    ELSE IF a[1] # b[1] THEN a[1] < b[1]
    ELSE StrLess(Tail(a), Tail(b))

\* The pairs of positions <<a, b>> with keys[a] < keys[b], for str keys.
StrOrder(keys) ==
    {ab \in (1..Len(keys)) \X (1..Len(keys)) : StrLess(keys[ab[1]], keys[ab[2]])}

\* A sort that reorders the 'datetime' key alone.
sort_datetime_only(d, sort_index) ==
    [key \in DOMAIN d |->
        IF key = "datetime" THEN Take(d[key], sort_index) ELSE d[key]]

\* _sort_dict with the sort_index that np.argsort gave.
_sort_dict(d, sort_index) == [key \in DOMAIN d |-> Take(d[key], sort_index)]


\* ------------------------------------------------------------------ inputs
Zeros(n) == [k \in 1..n |-> 0]
LE16(n) == <<n % 256, n \div 256>>
LE32(n) == <<n % 256, (n \div 256) % 256, (n \div 65536) % 256, n \div 16777216>>

\* struct.pack of 999.0 as a 4-byte and as a 2-byte float.
Sentinel32 == <<0, 192, 121, 68>>
Sentinel16 == <<206, 99>>

\* struct.pack of 1.0 and 0.5 as 4-byte floats, of 1.0 as a 2-byte float.
One32 == <<0, 0, 128, 63>>
Half32 == <<0, 0, 0, 63>>
One16 == <<0, 60>>

\* A legacy (51) message as the buoy packs it: 2022-09-26T21:45:ss, com port
\* 6, the spectrum zero, and the three frequency fields as given.
LegacyWith(fmin, fmax, fstep, ss) ==
    <<55, 51, 6>> \o LE16(calcsize(definition_51))
    \o Zeros(4 * 45) \o fmin \o fmax \o fstep \o Zeros(4 * 7)
    \o LE32(2022) \o LE32(9) \o LE32(26) \o LE32(21) \o LE32(45) \o LE32(ss)

\* The frequency axis unresolved.
Legacy(ss) == LegacyWith(Sentinel32, Sentinel32, Zeros(4), ss)

\* A compact (52) message of the first layout with the two frequency fields
\* as given; its epoch is that of the repository's sample message
\* (2022-09-26).
CompactWith(fmin, fmax) ==
    <<55, 52, 6>> \o LE16(calcsize(definition_pre_2025))
    \o Zeros(2 * 45) \o fmin \o fmax \o Zeros(42 * 5)
    \o Zeros(4 * 2) \o Zeros(2 * 3) \o <<57, 100, 198, 78>>

Compact == CompactWith(Sentinel16, Sentinel16)

\* A compact message of the later layout: the payload size field follows.
CompactPost ==
    <<55, 52, 6>> \o LE16(calcsize(definition_post_2025))
    \o Zeros(2 * 45) \o Sentinel16 \o Sentinel16 \o Zeros(42 * 5)
    \o Zeros(4 * 2) \o Zeros(2 * 3) \o <<57, 100, 198, 78>>
    \o LE32(calcsize(definition_post_2025))

\* A compact message whose moment and check bytes are all the byte given,
\* of the first layout, and of the later one when the payload size field
\* follows.
CompactMoments(byte, later) ==
    <<55, 52, 6>>
    \o LE16(calcsize(IF later THEN definition_post_2025 ELSE definition_pre_2025))
    \o Zeros(2 * 45) \o Sentinel16 \o Sentinel16 \o [k \in 1..(42 * 5) |-> byte]
    \o Zeros(4 * 2) \o Zeros(2 * 3) \o <<57, 100, 198, 78>>
    \o (IF later THEN LE32(calcsize(definition_post_2025)) ELSE <<>>)

\* A message of sensor type 50.
Type50 ==
    <<55, 50, 6>> \o LE16(calcsize(definition_50)) \o Zeros(4 * 304)
    \o LE32(2022) \o LE32(9) \o LE32(26) \o LE32(21) \o LE32(45) \o LE32(30)

\* A buffer of the legacy length with no null byte in it.
LegacyLengthNoNull == <<55, 51>> \o [k \in 1..(calcsize(definition_51) - 2) |-> 1]

Contents ==
    { Legacy(10), Legacy(20), Compact, CompactPost, Type50, LegacyLengthNoNull,
      <<55, 51, 1>>,        \* known revision, short
      <<55, 53, 1>>,        \* a revision the registry does not know
      <<55, 0, 0>>,         \* the marker and null bytes
      <<>>,                 \* an empty file
      <<69, 82, 82, 0>>,    \* b'ERR\x00'
      <<200, 51>> }         \* byte 0 is not ASCII

\* 'buoy-microSWIFT <id>-<k>'
FileName(id, k) == <<98, 117, 111, 121, 45>> \o MicroSwiftPrefix \o id \o <<45, 48 + k>>

FileNames ==
    {FileName(<<48, 49, 57>>, k) : k \in 1..MaxBatch}
        \cup {FileName(<<48, 49, 50>>, 1)}

\* The file names a sensor type is handed on its own: two instruments, and
\* 'buoy', which names none.
SensorNames ==
    {FileName(<<48, 49, 57>>, 1), FileName(<<48, 49, 50>>, 1), <<98, 117, 111, 121>>}

\* An open file of the zip: its name and what read() returns.
Files == [name : FileNames, content : Contents]

\* sbd_dict.values() in insertion order; the keys of a dict are distinct.
Batches ==
    UNION {{b \in [1..k -> Files] :
                \A a, c \in 1..k : a # c => b[a].name # b[c].name}
           : k \in 0..MaxBatch}

VarTypes == {"dict", "pandas", "xarray", "json"}

\* The buffers a sensor type is handed on its own: legacy messages with the
\* axis unresolved, from 0 to 1 in steps of 0.5, with a zero step, with one
\* end unresolved and with a month 0; compact messages of both layouts with
\* the axis unresolved, from 0 to 1 and with one end unresolved; a type-50
\* message; a buffer of no layout's length; compact messages of both layouts
\* with the moment and check bytes 0x80 and 0xFF.
LegacyTimes == {Legacy(ss) : ss \in 1..MaxTime}

UnpackContents ==
    LegacyTimes
    \cup { LegacyWith(Zeros(4), One32, Half32, 1),
           LegacyWith(Zeros(4), One32, Zeros(4), 1),
           LegacyWith(Sentinel32, One32, Half32, 1),
           [LegacyWith(Zeros(4), One32, Half32, 1) EXCEPT ![calcsize(definition_51) - 19] = 0],
           Compact, CompactPost,
           CompactWith(Zeros(2), One16),
           CompactWith(Zeros(2), Sentinel16),
           Type50,
           <<55, 51, 1>> }
    \cup {CompactMoments(byte, later) : byte \in {128, 255}, later \in BOOLEAN}

\* SensorTypeNN(sbd_content, sbd_filename) for every class of the registry.
Sensors ==
    {SensorTypeInit(cls, <<content, name>>).val :
        cls \in {SENSOR_TYPES[id] : id \in DOMAIN SENSOR_TYPES},
        content \in UnpackContents,
        name \in SensorNames}

\* DecodedRecords for a materializer called on its own: what unpack returns
\* for the legacy messages of one instrument at each time, for the first of
\* them under every file name, and for that instrument's legacy message with
\* a three-point axis and compact message with an axis from 0 to 1.
Records ==
    {unpack(sensor_).val :
        sensor_ \in {x \in Sensors :
                        /\ unpack(x).ok
                        /\ \/ x.sbd_content = Legacy(1)
                           \/ /\ x.sbd_filename = FileName(<<48, 49, 57>>, 1)
                              /\ x.sbd_content \in
                                    LegacyTimes
                                    \cup { LegacyWith(Zeros(4), One32, Half32, 1),
                                           CompactWith(Zeros(2), One16) }}}

DataLists == UNION {[1..k -> Records] : k \in 0..MaxRecords}

ErrorLists ==
    { <<>>,
      << [file_name |-> FileName(<<48, 49, 57>>, 2), error |-> None],
         [file_name |-> FileName(<<48, 49, 57>>, 1), error |-> PyBytes(<<69>>)] >> }

\* ------------------------------------------------------------------- state
VARIABLES
    sbd_dict,      \* the files handed to compile_sbd, in the dict's order
    var_type,      \* the var_type handed to compile_sbd
    use_multi_index, \* the use_multi_index handed to compile_sbd
    pc,            \* "read": in _read_sbd's loop; "compile": before the
                   \* materializer; "unpack": before a sensor type's unpack;
                   \* "returned"; "raised"; "pulled": pull_telemetry_as_var
                   \* returned
    n,             \* files the loop of _read_sbd has taken
    sbd_message,   \* the SbdMessage of the last file taken, None before
    sensor,        \* the sensor type instance that is unpacked on its own
    data_list,     \* _read_sbd's data_list
    error_list,    \* _read_sbd's error_list
    sort_index,    \* the index order the materializer's sort used
    result,        \* what the call returned, None before
    exc,           \* the exception that left the call, None otherwise
    warned,        \* a warning was emitted
    return_errors, \* the return_errors handed to pull_telemetry_as_var
    pulled         \* what pull_telemetry_as_var returned, None before

vars == <<sbd_dict, var_type, use_multi_index, pc, n, sbd_message, sensor,
          data_list, error_list, sort_index, result, exc, warned,
          return_errors, pulled>>

\* What the call was made with.
args == <<sbd_dict, var_type, use_multi_index, sensor, return_errors>>

\* compile_sbd is called with a batch.
Init ==
    /\ sbd_dict \in Batches
    /\ var_type \in VarTypes
    /\ use_multi_index \in BOOLEAN
    /\ pc = "read"
    /\ n = 0
    /\ sbd_message = None
    /\ sensor = None
    /\ data_list = <<>>
    /\ error_list = <<>>
    /\ sort_index = <<>>
    /\ result = None
    /\ exc = None
    /\ warned = FALSE
    /\ return_errors = FALSE
    /\ pulled = None

\* One pass of the loop of _read_sbd, the read returning.
ReadMessage ==
    /\ pc = "read"
    /\ n < Len(sbd_dict)
    /\ LET m == SbdMessage(sbd_dict[n + 1])
           got == read(m)
       IN /\ got.ok
          /\ sbd_message' = m
          /\ data_list' = IF Truthy(got.val.swift)
                          THEN Append(data_list, got.val.swift)
                          ELSE data_list
          /\ error_list' = Append(error_list, got.val.error_message)
    /\ n' = n + 1
    /\ UNCHANGED <<args, pulled, pc, sort_index, result, exc, warned>>

\* One pass of the loop, the read raising: nothing catches the exception, and
\* it leaves _read_sbd and compile_sbd.
ReadRaises ==
    /\ pc = "read"
    /\ n < Len(sbd_dict)
    /\ LET m == SbdMessage(sbd_dict[n + 1])
           got == read(m)
       IN /\ ~got.ok
          /\ sbd_message' = m
          /\ exc' = got.exc
    /\ n' = n + 1
    /\ pc' = "raised"
    /\ UNCHANGED <<args, pulled, data_list, error_list, sort_index, result, warned>>

\* The loop is over: _read_sbd returns its two lists.
ReadDone ==
    /\ pc = "read"
    /\ n = Len(sbd_dict)
    /\ pc' = "compile"
    /\ UNCHANGED <<args, pulled, n, sbd_message, data_list, error_list,
                   sort_index, result, exc, warned>>

\* np.array(val) for the list of one field's values.  Arrays of one length
\* stack into two dimensions and values that are not arrays make one
\* dimension; arrays mixed with other values, or of several lengths, are
\* ragged: a ValueError from numpy 1.24 on, one dimension of objects before.
IsArray(v) == v.t = "ndarray"

Lengths(val) == {Len(val[k].v) : k \in {a \in 1..Len(val) : IsArray(val[a])}}

IsRagged(val) ==
    /\ \E k \in 1..Len(val) : IsArray(val[k])
    /\ \/ \E k \in 1..Len(val) : ~IsArray(val[k])
       \/ Cardinality(Lengths(val)) > 1

Shape(val) ==
    IF (\E k \in 1..Len(val) : IsArray(val[k])) /\ ~IsRagged(val)
    THEN <<Len(val), CHOOSE length \in Lengths(val) : TRUE>>
    ELSE <<Len(val)>>

\* A materializer that sorted its two arguments where they are.
ArgumentsAndLocals(view) == {"data_list", "error_dict", "data_df", "error_df"}

\* The objects a materializer assigns into or changes in place: the
\* defaultdict of _combine_dict_list and the dict of _sort_dict, the two
\* DataFrames, the coords and data_vars of the Dataset.  Each is made by the
\* call itself.
WrittenObjects(view) ==
    CASE view = "dict" -> {"combined_dict", "d_sorted"}
      [] view = "pandas" -> {"data_df", "error_df"}
      [] view = "xarray" -> {"combined_dict", "d_sorted", "coords", "data_vars"}

\* An object of the caller after the materializer: what was written into it
\* when the materializer writes it, what it was otherwise.
AfterCall(name, before, written, view) ==
    IF name \in WrittenObjects(view) THEN written ELSE before

\* The index orders np.argsort(d['datetime']) may give.
SortOrders(rows) ==
    LET stamps == [k \in 1..Len(rows) |-> rows[k]["datetime"]]
    IN ArgSort(stamps, DateTimeOrder(stamps))

\* _compile_dict: the fields combined and sorted with the order argsort
\* gave, or the empty defaultdict and a warning.  strict: the numpy raises
\* for a ragged list.
_compile_dict(rows, error_dict, order, strict) ==
    LET data_dict == _combine_dict_list(rows)
    IN IF Truthy(data_dict)
       THEN IF strict /\ \E key \in DOMAIN data_dict : IsRagged(data_dict[key])
            THEN Raise(Exc("ValueError"))
            ELSE Ok([data |-> _sort_dict(data_dict, order),
                     errors |-> error_dict, warned |-> FALSE])
       ELSE Ok([data |-> data_dict, errors |-> error_dict, warned |-> TRUE])

\* compile_sbd(..., 'dict'): _compile_dict(data_list, error_dict) with
\* error_dict combined by compile_sbd.
CompileDict ==
    /\ pc = "compile"
    /\ var_type = "dict"
    /\ LET error_dict == _combine_dict_list(error_list)
       IN \E order \in SortOrders(data_list), strict \in BOOLEAN :
            LET got == _compile_dict(data_list, error_dict, order, strict)
            IN /\ sort_index' = order
               /\ IF got.ok
                  THEN /\ result' = [data |-> got.val.data, errors |-> got.val.errors]
                       /\ warned' = got.val.warned
                       /\ pc' = "returned"
                       /\ exc' = exc
                  ELSE /\ exc' = got.exc
                       /\ pc' = "raised"
                       /\ UNCHANGED <<result, warned>>
    /\ data_list' = AfterCall("data_list", data_list, Take(data_list, sort_index'), var_type)
    /\ error_list' = AfterCall("error_dict", error_list, error_list, var_type)
    /\ UNCHANGED <<args, pulled, n, sbd_message>>

\* df.set_index('datetime') alone: the datetime column becomes the index and
\* the rows stay as they are.
set_index(rows, index_order) ==
    [index |-> [k \in 1..Len(rows) |-> rows[k]["datetime"]],
     rows |-> rows]

\* _set_pandas_datetime_index: the datetime column becomes the index and
\* the rows are sorted by it.
_set_pandas_datetime_index(rows, index_order) ==
    [index |-> Take([k \in 1..Len(rows) |-> rows[k]["datetime"]], index_order),
     rows |-> Take(rows, index_order)]

\* The order of two ids in the index: str order, and the missing id (None,
\* NaN in the index) before or after every id, as the pandas places it.
IdLess(a, b, na_first) ==
    IF a = None \/ b = None
    THEN a # b /\ (IF a = None THEN na_first ELSE ~na_first)
    ELSE StrLess(a.v, b.v)

\* The pairs of positions <<a, b>> with rows[a] before rows[b] in the order
\* of datetime alone.
DatetimeLevelOrder(rows, na_first) ==
    {ab \in (1..Len(rows)) \X (1..Len(rows)) :
        DateTimeLess(rows[ab[1]]["datetime"], rows[ab[2]]["datetime"])}

\* The pairs of positions <<a, b>> with rows[a] before rows[b] in the order
\* of (id, datetime).
MultiIndexOrder(rows, na_first) ==
    {ab \in (1..Len(rows)) \X (1..Len(rows)) :
        LET x == rows[ab[1]]
            y == rows[ab[2]]
        IN \/ IdLess(x["id"], y["id"], na_first)
           \/ x["id"] = y["id"] /\ DateTimeLess(x["datetime"], y["datetime"])}

\* _set_pandas_multi_index: id and datetime become the index and the rows
\* are sorted by the two levels.
_set_pandas_multi_index(rows, index_order) ==
    [index |-> Take([k \in 1..Len(rows) |->
                        <<rows[k]["id"], rows[k]["datetime"]>>], index_order),
     rows |-> Take(rows, index_order)]

\* error_df.sort_values(by='file_name') and reset_index(drop=True).
SortedErrors(error_list_, order) == Take(error_list_, order)

\* compile_sbd(..., 'pandas', use_multi_index): _compile_pandas.
CompilePandas ==
    /\ pc = "compile"
    /\ var_type = "pandas"
    /\ LET error_rows == error_list
           names == [k \in 1..Len(error_rows) |-> error_rows[k].file_name]
       IN \E error_order \in ArgSort(names, StrOrder(names)), na_first \in BOOLEAN :
          \E order \in (IF use_multi_index
                        THEN ArgSort(data_list, MultiIndexOrder(data_list, na_first))
                        ELSE SortOrders(data_list)) :
            /\ sort_index' = order
            /\ IF data_list # <<>>
               THEN /\ result' =
                        [data |-> IF use_multi_index
                                  THEN _set_pandas_multi_index(data_list, order)
                                  ELSE _set_pandas_datetime_index(data_list, order),
                         errors |-> SortedErrors(error_rows, error_order)]
                    /\ warned' = warned
               ELSE /\ result' = [data |-> [index |-> <<>>, rows |-> <<>>],
                                  errors |-> SortedErrors(error_rows, error_order)]
                    /\ warned' = TRUE
    /\ pc' = "returned"
    /\ data_list' = AfterCall("data_list", data_list, Take(data_list, sort_index'), var_type)
    /\ error_list' = AfterCall("error_dict", error_list, result'.errors, var_type)
    /\ UNCHANGED <<args, pulled, n, sbd_message, exc>>

\* _unify_frequency: frequency_array.mean(axis=0).  Rows of one length give
\* their mean, which is the row when they are all the same; an array of
\* objects (ragged rows) is summed row by row, which numpy broadcasts when
\* all rows but those of length 1 have one length, and refuses otherwise.
_unify_frequency(frequency_array) ==
    LET longer == Lengths(frequency_array) \ {1}
        length == IF longer = {} THEN 1 ELSE CHOOSE l \in longer : TRUE
        same == \A k \in 1..Len(frequency_array) : frequency_array[k] = frequency_array[1]
    IN IF Cardinality(longer) > 1 THEN Raise(Exc("ValueError"))
       ELSE Ok([shape |-> <<IF Len(Shape(frequency_array)) = 2
                            THEN Shape(frequency_array)[2] ELSE length>>,
                v |-> IF same THEN frequency_array[1].v
                      ELSE <<[t |-> "mean", of |-> frequency_array]>>])

\* The names of the two coordinates of the Dataset.
Coords == {"datetime", "frequency"}

\* _key_difference(VARIABLE_DEFINITIONS.keys(), coords.keys())
_key_difference(keys_a, keys_b) == {x \in keys_a : x \notin keys_b}

\* _compile_xarray: the mapping view, then the coordinates and, for every
\* other field, the axes its shape names.
_compile_xarray(rows, error_dict, order, strict) ==
    LET compiled == _compile_dict(rows, error_dict, order, strict)
    IN IF ~compiled.ok THEN compiled
       \* The view is the empty defaultdict(list): data_dict['frequency'] is a
       \* list, which has no mean.
       ELSE IF ~Truthy(compiled.val.data) THEN Raise(Exc("AttributeError"))
       ELSE
       LET data_dict == compiled.val.data
           datetime_coord == data_dict["datetime"]
           frequency_coord == _unify_frequency(data_dict["frequency"])
       IN IF ~frequency_coord.ok THEN frequency_coord
          ELSE
          LET scalar_shape == <<Len(datetime_coord)>>
              spectral_shape == <<Len(datetime_coord), frequency_coord.val.shape[1]>>
              variable_keys == _key_difference(VARIABLE_DEFINITIONS, Coords)
              fits == \A var \in variable_keys :
                         Shape(data_dict[var]) \in {scalar_shape, spectral_shape}
          IN IF ~fits THEN Raise(Exc("ValueError"))
             ELSE Ok([data |->
                        [coords |-> [datetime |-> datetime_coord,
                                     frequency |-> frequency_coord.val.v],
                         data_vars |->
                            [var \in variable_keys |->
                                [dims |-> IF Shape(data_dict[var]) = scalar_shape
                                          THEN <<"datetime">>
                                          ELSE <<"datetime", "frequency">>,
                                 values |-> data_dict[var]]]],
                      errors |-> compiled.val.errors,
                      warned |-> compiled.val.warned])

\* compile_sbd(..., 'xarray'): _compile_xarray(data_list, error_dict).
CompileXarray ==
    /\ pc = "compile"
    /\ var_type = "xarray"
    /\ LET error_dict == _combine_dict_list(error_list)
       IN \E order \in SortOrders(data_list), strict \in BOOLEAN :
            LET got == _compile_xarray(data_list, error_dict, order, strict)
            IN /\ sort_index' = order
               /\ warned' = (data_list = <<>>)
               /\ IF got.ok
                  THEN /\ result' = [data |-> got.val.data, errors |-> got.val.errors]
                       /\ pc' = "returned"
                       /\ exc' = exc
                  ELSE /\ exc' = got.exc
                       /\ pc' = "raised"
                       /\ result' = result
    /\ data_list' = AfterCall("data_list", data_list, Take(data_list, sort_index'), var_type)
    /\ error_list' = AfterCall("error_dict", error_list, error_list, var_type)
    /\ UNCHANGED <<args, pulled, n, sbd_message>>

\* compile_sbd with a var_type it does not know: ValueError, after the read.
CompileUnknownType ==
    /\ pc = "compile"
    /\ var_type \notin {"dict", "pandas", "xarray"}
    /\ exc' = Exc("ValueError")
    /\ pc' = "raised"
    /\ UNCHANGED <<args, pulled, n, sbd_message, data_list, error_list,
                   sort_index, result, warned>>

Next ==
    \/ ReadMessage
    \/ ReadRaises
    \/ ReadDone
    \/ CompileDict
    \/ CompilePandas
    \/ CompileXarray
    \/ CompileUnknownType

Spec == Init /\ [][Next]_vars

\* A materializer is called on its own with a data_list and the errors of a
\* batch already read; use_multi_index is an argument of _compile_pandas
\* alone.
InitCompile ==
    /\ sbd_dict = <<>>
    /\ var_type \in VarTypes
    /\ use_multi_index \in (IF var_type = "pandas" THEN BOOLEAN ELSE {FALSE})
    /\ pc = "compile"
    /\ n = 0
    /\ sbd_message = None
    /\ sensor = None
    /\ data_list \in DataLists
    /\ error_list \in ErrorLists
    /\ sort_index = <<>>
    /\ result = None
    /\ exc = None
    /\ warned = FALSE
    /\ return_errors = FALSE
    /\ pulled = None

NextCompile ==
    \/ CompileDict
    \/ CompilePandas
    \/ CompileXarray
    \/ CompileUnknownType

SpecCompile == InitCompile /\ [][NextCompile]_vars

\* A sensor type is constructed with a buffer and a file name and unpacked on
\* its own.
InitUnpack ==
    /\ sbd_dict = <<>>
    /\ var_type = "dict"
    /\ use_multi_index = FALSE
    /\ pc = "unpack"
    /\ n = 0
    /\ sbd_message = None
    /\ sensor \in Sensors
    /\ data_list = <<>>
    /\ error_list = <<>>
    /\ sort_index = <<>>
    /\ result = None
    /\ exc = None
    /\ warned = FALSE
    /\ return_errors = FALSE
    /\ pulled = None

\* sensor.unpack() returns the record.
Unpack ==
    /\ pc = "unpack"
    /\ unpack(sensor).ok
    /\ result' = unpack(sensor).val
    /\ pc' = "returned"
    /\ UNCHANGED <<args, pulled, n, sbd_message, data_list, error_list, sort_index,
                   exc, warned>>

\* sensor.unpack() raises.
UnpackRaises ==
    /\ pc = "unpack"
    /\ ~unpack(sensor).ok
    /\ exc' = unpack(sensor).exc
    /\ pc' = "raised"
    /\ UNCHANGED <<args, pulled, n, sbd_message, data_list, error_list, sort_index,
                   result, warned>>

NextUnpack ==
    \/ Unpack
    \/ UnpackRaises

SpecUnpack == InitUnpack /\ [][NextUnpack]_vars

\* The lists a caller hands to one materializer after another.
MaxViewed == 2

ViewedLists == UNION {[1..k -> Records] : k \in 0..MaxViewed}

InitViews ==
    /\ sbd_dict = <<>>
    /\ var_type \in {"dict", "pandas", "xarray"}
    /\ use_multi_index \in (IF var_type = "pandas" THEN BOOLEAN ELSE {FALSE})
    /\ pc = "compile"
    /\ n = 0
    /\ sbd_message = None
    /\ sensor = None
    /\ data_list \in ViewedLists
    /\ error_list \in ErrorLists
    /\ sort_index = <<>>
    /\ result = None
    /\ exc = None
    /\ warned = FALSE
    /\ return_errors = FALSE
    /\ pulled = None

\* The caller goes on to another materializer with the same two arguments;
\* the exception and the warning of the calls before stay on record.
AnotherView ==
    /\ pc \in {"returned", "raised"}
    /\ var_type' \in {"dict", "pandas", "xarray"}
    /\ use_multi_index' \in (IF var_type' = "pandas" THEN BOOLEAN ELSE {FALSE})
    /\ pc' = "compile"
    /\ sort_index' = <<>>
    /\ result' = None
    /\ UNCHANGED <<sbd_dict, sensor, return_errors, pulled, n, sbd_message,
                   data_list, error_list, exc, warned>>

NextViews ==
    \/ CompileDict
    \/ CompilePandas
    \/ CompileXarray
    \/ AnotherView

SpecViews == InitViews /\ [][NextViews]_vars

\* (data, errors) for every flag.
ReturnBoth(data, errors, flag) == <<data, errors>>

\* pull_telemetry_as_var's return: data and errors, or data alone.
ReturnData(data, errors, flag) == IF flag THEN <<data, errors>> ELSE data

\* The messages pull_telemetry_as_var collects from the server's zip files:
\* an empty file, an error text, a legacy message and a message of a revision
\* the registry does not know.
PullContents == { <<>>, <<69, 82, 82, 0>>, Legacy(10), <<55, 53, 1>> }

PullFiles == [name : FileNames, content : PullContents]

PullBatches ==
    UNION {{b \in [1..k -> PullFiles] :
                \A a, c \in 1..k : a # c => b[a].name # b[c].name}
           : k \in 0..MaxBatch}

\* pull_telemetry_as_var has collected sbd_dict and calls compile_sbd.
InitPull ==
    /\ sbd_dict \in PullBatches
    /\ var_type \in VarTypes
    /\ use_multi_index \in BOOLEAN
    /\ return_errors \in BOOLEAN
    /\ pc = "read"
    /\ n = 0
    /\ sbd_message = None
    /\ sensor = None
    /\ data_list = <<>>
    /\ error_list = <<>>
    /\ sort_index = <<>>
    /\ result = None
    /\ exc = None
    /\ warned = FALSE
    /\ pulled = None

\* compile_sbd has returned (data, errors): pull_telemetry_as_var returns.
PullReturn ==
    /\ pc = "returned"
    /\ pulled' = ReturnData(result.data, result.errors, return_errors)
    /\ pc' = "pulled"
    /\ UNCHANGED <<args, n, sbd_message, data_list, error_list, sort_index,
                   result, exc, warned>>

NextPull ==
    \/ ReadMessage
    \/ ReadRaises
    \/ ReadDone
    \/ CompileDict
    \/ CompilePandas
    \/ CompileXarray
    \/ CompileUnknownType
    \/ PullReturn

SpecPull == InitPull /\ [][NextPull]_vars

\* _read_sbd as a whole: the two lists it returns for a batch, or the
\* exception of the first read that raises.
RECURSIVE ReadFrom(_, _, _, _)
ReadNext(batch, k, datas, errors, got) ==
    IF ~got.ok THEN got
    ELSE ReadFrom(batch, k + 1,
                  IF Truthy(got.val.swift) THEN Append(datas, got.val.swift) ELSE datas,
                  Append(errors, got.val.error_message))

ReadFrom(batch, k, datas, errors) ==
    IF k > Len(batch) THEN Ok([data_list |-> datas, error_list |-> errors])
    ELSE ReadNext(batch, k, datas, errors, read(SbdMessage(batch[k])))

_read_sbd(batch) == ReadFrom(batch, 1, <<>>, <<>>)

\* ------------------------------------------------------------------ claims
\* The call is over.
Done == pc \in {"returned", "raised"}

\* The bytes of the file the loop took last, as handed in.
Raw == sbd_message.file.content

HasMarker(c) == c # <<>> /\ c[1] = 55

\* The byte lengths of the layouts of a revision.
LayoutSizes(revision) ==
    CASE revision = 50 -> {calcsize(definition_50)}
      [] revision = 51 -> {calcsize(definition_51)}
      [] revision = 52 -> {calcsize(definition_pre_2025),
                           calcsize(definition_post_2025)}

KnownRevision(c) == HasMarker(c) /\ Len(c) >= 2 /\ c[2] \in DOMAIN SENSOR_TYPES

\* Marker, a fully supported revision, and the length of one of its layouts.
WellFormed(c) ==
    KnownRevision(c) /\ c[2] \in {51, 52} /\ Len(c) \in LayoutSizes(c[2])

IsDecodable(file) == payload_type_id(SbdMessage(file)) = Marker

\* The message is classified Decodable and its read raises.
DecodeFails(m) ==
    /\ sensor_type_id(m).ok
    /\ sensor_type_id(m).val # None
    /\ ~read(m).ok

\* The comparison of validate_file_size for an instance of the message's
\* sensor type.
SizeMismatch(m) ==
    m.file_size #
        expected_file_size([cls |-> SENSOR_TYPES[sensor_type_id(m).val.v],
                            sbd_content |-> m.file_content,
                            sbd_filename |-> m.file.name])

Ascending(stamps) ==
    \A a \in 1..(Len(stamps) - 1) : ~DateTimeLess(stamps[a + 1], stamps[a])

\* C1: a message whose decoding fails (size mismatch, unsupported or
\* not-implemented revision) does not end the call: the failure is recorded
\* in that message's own ErrorRecord and the batch goes on.
C1_DecodeFailureIsIsolated ==
    (sbd_message # None /\ DecodeFails(sbd_message)) =>
        /\ pc # "raised"
        /\ Len(error_list) = n
        /\ error_list[n].file_name = sbd_message.file.name
        /\ error_list[n].error # None

\* C2: once the batch is read there is exactly one ErrorRecord per input
\* message, carrying its file name; there are at most as many DecodedRecords
\* as Decodable messages, and none comes from an Opaque message.
C2_OneErrorRecordPerMessage ==
    pc # "read" =>
        /\ Len(error_list) = Len(sbd_dict)
        /\ \A k \in 1..Len(sbd_dict) : error_list[k].file_name = sbd_dict[k].name
        /\ Len(data_list) <=
             Cardinality({k \in 1..Len(sbd_dict) : IsDecodable(sbd_dict[k])})

\* C3: a message with the marker, revision 51 or 52 and the length of that
\* revision's layout reads into a populated record holding the packed values,
\* with an ErrorRecord whose error is None.
C3_WellFormedMessageDecodes ==
    (sbd_message # None /\ WellFormed(Raw)) =>
        LET got == read(sbd_message)
        IN /\ got.ok
           /\ Truthy(got.val.swift)
           /\ got.val.swift["sensor_type"] = PyInt(Raw[2])
           /\ got.val.swift["com_port"] = PyInt(Raw[3])
           /\ got.val.swift["payload_size"] = PyInt(LESigned(SubSeq(Raw, 4, 5)))
           /\ got.val.error_message.error = None

C5_WrongLengthIsSizeMismatch ==
    (/\ sbd_message # None
     /\ KnownRevision(Raw)
     /\ Len(Raw) \notin LayoutSizes(Raw[2])
     /\ sbd_message.file_size \notin LayoutSizes(Raw[2])) =>
        LET got == read(sbd_message)
        IN /\ ~got.ok
           /\ IsSizeError(got.exc)
           /\ got.exc.received = sbd_message.file_size
           /\ got.exc.expected \in LayoutSizes(Raw[2])

\* C6: a message is Decodable exactly when its byte 0 is '7', and then its
\* revision is byte 1 as an unsigned integer; with any other byte 0, or no
\* byte at all, it is Opaque and its revision is None.
C6_ClassifiedByTwoBytes ==
    sbd_message # None =>
        LET id == sensor_type_id(sbd_message)
        IN IF HasMarker(Raw)
           THEN Len(Raw) >= 2 => (id.ok /\ id.val = PyInt(Raw[2]))
           ELSE id.ok /\ id.val = None

\* C7: an Opaque message reads into an empty record and an ErrorRecord whose
\* error is the whole buffer; a batch of one well-formed message and one
\* Opaque message gives one DecodedRecord and two ErrorRecords, the error
\* None for the first and the payload for the second.
C7_OpaquePayloadAndPartialBatch ==
    /\ (sbd_message # None /\ ~IsDecodable(sbd_message.file)) =>
          LET got == read(sbd_message)
          IN /\ got.ok
             /\ got.val.swift = <<>>
             /\ got.val.error_message.error = PyBytes(sbd_message.file_content)
    /\ (/\ Done
        /\ var_type \in {"dict", "pandas"}
        /\ Len(sbd_dict) = 2
        /\ WellFormed(sbd_dict[1].content)
        /\ ~IsDecodable(sbd_dict[2])) =>
          /\ pc = "returned"
          /\ Len(data_list) = 1
          /\ Len(error_list) = 2
          /\ error_list[1].error = None
          /\ error_list[2].error = PyBytes(_rstrip_null(sbd_dict[2].content))

\* C8: for the marker and a revision outside the registry, classification
\* raises nothing and gives that revision; the lookup's failure ends in the
\* message's ErrorRecord, not in an exception leaving the batch.
C8_UnknownRevisionIsRecorded ==
    (/\ sbd_message # None
     /\ HasMarker(Raw)
     /\ Len(sbd_message.file_content) >= 2
     /\ Raw[2] \notin DOMAIN SENSOR_TYPES) =>
        /\ sensor_type_id(sbd_message) = Ok(PyInt(Raw[2]))
        /\ pc # "raised"
        /\ Len(error_list) = n
        /\ error_list[n].file_name = sbd_message.file.name
        /\ error_list[n].error # None

\* C9: the 'datetime' array of the mapping view compile_sbd returns is
\* ascending; two legacy messages handed in later-first come back as
\* [T1, T2].
C9_MappingViewIsTimeSorted ==
    /\ (pc = "returned" /\ var_type = "dict" /\ Truthy(result.data)) =>
          Ascending(result.data["datetime"])
    /\ (/\ Done
        /\ var_type = "dict"
        /\ Len(sbd_dict) = 2
        /\ sbd_dict[1].content = Legacy(20)
        /\ sbd_dict[2].content = Legacy(10)) =>
          /\ pc = "returned"
          /\ Truthy(result.data)
          /\ result.data["datetime"] =
                <<datetime(2022, 9, 26, 21, 45, 10).val,
                  datetime(2022, 9, 26, 21, 45, 20).val>>

\* C10: the time sort is stable: records with equal timestamps leave in the
\* order they came in, in the mapping view and in the table view.
C10_TimeSortIsStable ==
    (pc = "returned" /\ data_list # <<>>) =>
        \A a, b \in 1..Len(sort_index) :
            (/\ a < b
             /\ data_list[sort_index[a]]["datetime"]
                    = data_list[sort_index[b]]["datetime"])
                => sort_index[a] < sort_index[b]

\* The ErrorRecords of the result, one row each: the rows of the error table,
\* or the positions of the error mapping's two lists.
ErrorRows ==
    IF var_type = "pandas" THEN result.errors
    ELSE IF ~Truthy(result.errors) THEN <<>>
    ELSE [k \in 1..Len(result.errors["file_name"]) |->
            [file_name |-> result.errors["file_name"][k],
             error |-> result.errors["error"][k]]]

\* The batch in every order of its messages.
Reorderings(batch) ==
    {[k \in 1..Len(batch) |-> batch[p[k]]] : p \in IndexOrders(Len(batch))}

AllOpaque == \A k \in 1..Len(sbd_dict) : ~IsDecodable(sbd_dict[k])

\* C11: in what compile_sbd returns, for every output shape, the
\* ErrorRecords are in ascending order of file name, and each file name is
\* with the error payload of its own message.
C11_ErrorsSortedByFileName ==
    pc = "returned" =>
        /\ \A a \in 1..(Len(ErrorRows) - 1) :
              ~StrLess(ErrorRows[a + 1].file_name, ErrorRows[a].file_name)
        /\ \A a \in 1..Len(ErrorRows) :
              \E k \in 1..Len(sbd_dict) :
                 /\ sbd_dict[k].name = ErrorRows[a].file_name
                 /\ read(SbdMessage(sbd_dict[k])).val.error_message.error
                        = ErrorRows[a].error

\* C12: the mapping view compile_sbd returns for a batch is the one it
\* returns for the same messages in any other order: the same DecodedRecords
\* and the same ErrorRecords, position by position.
C12_OrderIndependent ==
    (pc = "returned" /\ var_type = "dict") =>
        \A other \in Reorderings(sbd_dict) :
            /\ _read_sbd(other).ok
            /\ \A order \in SortOrders(_read_sbd(other).val.data_list),
                  strict \in BOOLEAN :
                  LET got == _compile_dict(_read_sbd(other).val.data_list,
                                           _combine_dict_list(_read_sbd(other).val.error_list),
                                           order, strict)
                  IN /\ got.ok
                     /\ got.val.data = result.data
                     /\ got.val.errors = result.errors

\* C13: for a batch of no message, or of Opaque messages only, compile_sbd
\* returns for each of 'dict', 'pandas' and 'xarray', with no DecodedRecord
\* and a warning; with no message there is no ErrorRecord either.
C13_EmptyBatchReturnsEmpty ==
    (Done /\ var_type \in {"dict", "pandas", "xarray"} /\ AllOpaque) =>
        /\ pc = "returned"
        /\ data_list = <<>>
        /\ warned
        /\ (sbd_dict = <<>> => ErrorRows = <<>>)

\* The items struct.unpack gives for the buffer of the sensor type on its own.
Items == struct_unpack(definition(sensor), sensor.sbd_content).val

\* The encoded frequency-min and frequency-max are both 999.
BothEnds999 ==
    /\ sensor.cls \in {"SensorType51", "SensorType52"}
    /\ struct_unpack(definition(sensor), sensor.sbd_content).ok
    /\ FloatValue(At(Items, 49)) = PyNum(999, 1)
    /\ FloatValue(At(Items, 50)) = PyNum(999, 1)

\* C14: for the legacy and the compact revision, the record unpack returns
\* for a buffer whose encoded frequency-min and frequency-max are both 999
\* has a frequency array of 42 elements, each 999, as long as its energy
\* spectrum.
C14_SentinelAxisIsAll999 ==
    (pc = "returned" /\ BothEnds999) =>
        /\ result["frequency"] = NdArray([k \in 1..42 |-> PyNum(999, 1)])
        /\ Len(result["energy_density"].v) = 42

\* C14: a compact buffer with both ends 999 has been unpacked.
C14_Witness ==
    /\ pc = "returned"
    /\ BothEnds999
    /\ sensor.cls = "SensorType52"

\* The instance of the compact sensor type for the message the loop took
\* last, built from what the handler keeps of it.
Compact52 ==
    [cls |-> SENSOR_TYPES[52],
     sbd_content |-> sbd_message.file_content,
     sbd_filename |-> sbd_message.file.name]

SpectralFields(record) ==
    {var \in {"energy_density", "a1", "b1", "a2", "b2", "check"} :
        record[var] # None}

\* C16: in every record unpack returns, whatever the revision and the encoded
\* frequency values, the frequency array is as long as the energy spectrum
\* and as every spectral field the record populates.
C16_FrequencyAlignsWithSpectra ==
    (pc = "returned" /\ IsArray(result["frequency"])) =>
        \A var \in SpectralFields(result) :
            Len(result["frequency"].v) = Len(result[var].v)

\* The fields a revision's unpack leaves as init_swift_dict made them.
Unpopulated(revision) ==
    CASE revision = 51 -> {"a1", "b1", "a2", "b2", "check", "salinity"}
      [] revision = 52 -> {"u_mean", "v_mean", "z_mean"}

\* C17: every DecodedRecord has exactly the keys of VARIABLE_DEFINITIONS and
\* holds None in every field its revision does not populate; the mapping view
\* has None at a position of a field exactly when the record sorted to that
\* position has None in the field.
C17_MissingFieldsAreNone ==
    /\ \A k \in 1..Len(data_list) :
          /\ DOMAIN data_list[k] = VARIABLE_DEFINITIONS
          /\ \A var \in Unpopulated(data_list[k]["sensor_type"].v) :
                data_list[k][var] = None
    /\ (pc = "returned" /\ var_type = "dict" /\ data_list # <<>>) =>
          /\ DOMAIN result.data = VARIABLE_DEFINITIONS
          /\ \A var \in VARIABLE_DEFINITIONS, k \in 1..Len(data_list) :
                result.data[var][k] = None
                    <=> data_list[sort_index[k]][var] = None

\* C17: a mapping view has been returned for records of both revisions.
C17_Witness ==
    /\ pc = "returned"
    /\ var_type = "dict"
    /\ \E a, b \in 1..Len(data_list) :
          /\ data_list[sort_index[a]]["sensor_type"].v = 51
          /\ data_list[sort_index[b]]["sensor_type"].v = 52
          /\ result.data["salinity"][a] = None
          /\ result.data["salinity"][b] # None

\* C18: compile_sbd called with a var_type other than 'dict', 'pandas' and
\* 'xarray' raises ValueError and returns nothing, for every batch.
C18_UnknownVarTypeIsValueError ==
    (Done /\ var_type \notin {"dict", "pandas", "xarray"}) =>
        /\ pc = "raised"
        /\ exc = Exc("ValueError")
        /\ result = None

\* sorted is a reordering of list_: the same records, each once.
IsReordering(sorted, list_) ==
    /\ Len(sorted) = Len(list_)
    /\ \E p \in IndexOrders(Len(list_)) : sorted = Take(list_, p)

\* C19: the table of _compile_pandas without the joint index has one row per
\* DecodedRecord, each row holding the values of one record and indexed by
\* that record's datetime, in ascending order of datetime; the error table
\* holds the ErrorRecords in ascending order of file name, indexed from 0.
C19_TableIsIndexedByTime ==
    (pc = "returned" /\ var_type = "pandas" /\ ~use_multi_index) =>
        /\ IsReordering(result.data.rows, data_list)
        /\ Len(result.data.index) = Len(result.data.rows)
        /\ \A k \in 1..Len(result.data.rows) :
              result.data.index[k] = result.data.rows[k]["datetime"]
        /\ Ascending(result.data.index)
        /\ IsReordering(result.errors, error_list)
        /\ \A k \in 1..(Len(result.errors) - 1) :
              ~StrLess(result.errors[k + 1].file_name, result.errors[k].file_name)

\* C19: a table has been returned for records that arrived out of time
\* order, with ErrorRecords that arrived out of name order.
C19_Witness ==
    /\ pc = "returned"
    /\ var_type = "pandas"
    /\ ~use_multi_index
    /\ \E a, b \in 1..Len(data_list) :
          a < b /\ DateTimeLess(data_list[b]["datetime"], data_list[a]["datetime"])
    /\ \E a, b \in 1..Len(error_list) :
          a < b /\ StrLess(error_list[b].file_name, error_list[a].file_name)

\* C20: with the joint index the rows of _compile_pandas are the records,
\* each once, in ascending order of id and, within one id, in ascending
\* order of datetime, so that the rows of one id are next to each other.
C20_JointIndexGroupsByInstrument ==
    (pc = "returned" /\ var_type = "pandas" /\ use_multi_index) =>
        /\ IsReordering(result.data.rows, data_list)
        /\ \A a, b \in 1..Len(result.data.rows) :
              LET x == result.data.rows[a]
                  y == result.data.rows[b]
              IN a < b =>
                   /\ (x["id"] # None /\ y["id"] # None)
                         => ~StrLess(y["id"].v, x["id"].v)
                   /\ x["id"] = y["id"]
                         => ~DateTimeLess(y["datetime"], x["datetime"])
                   /\ x["id"] = y["id"]
                         => \A c \in a..b : result.data.rows[c]["id"] = x["id"]
        /\ \A k \in 1..Len(result.data.rows) :
              result.data.index[k] = <<result.data.rows[k]["id"],
                                       result.data.rows[k]["datetime"]>>

\* C20: a jointly indexed table has been returned for records of two
\* instruments that arrived interleaved and out of id order.
C20_Witness ==
    /\ pc = "returned"
    /\ var_type = "pandas"
    /\ use_multi_index
    /\ Len(data_list) = 3
    /\ data_list[1]["id"] # None
    /\ data_list[2]["id"] # None
    /\ data_list[1]["id"] = data_list[3]["id"]
    /\ StrLess(data_list[2]["id"].v, data_list[1]["id"].v)

\* The fields declared on (datetime, frequency).
SpectralVars == {"energy_density", "a1", "b1", "a2", "b2", "check"}

\* C21: what _compile_xarray returns for a non-empty list of records has
\* every spectral field on (datetime, frequency) and every other field on
\* (datetime) alone; when it does not return, it raised the ValueError of a
\* shape that fits neither.
C21_FieldsOnDeclaredAxes ==
    (var_type = "xarray" /\ data_list # <<>>) =>
        /\ pc = "returned" =>
              \A var \in DOMAIN result.data.data_vars :
                  result.data.data_vars[var].dims =
                      (IF var \in SpectralVars
                       THEN <<"datetime", "frequency">>
                       ELSE <<"datetime">>)
        /\ pc = "raised" => exc = Exc("ValueError")

IsType50(c) ==
    KnownRevision(c) /\ c[2] = 50 /\ Len(c) = calcsize(definition_50)

\* C24: once the loop has taken a revision-50 message of the expected
\* length, that message has its ErrorRecord, whose error is the
\* NotImplementedError (no size error), it has given no DecodedRecord, and
\* the loop has not been left.
C24_Type50IsRecordedNotImplemented ==
    (sbd_message # None /\ IsType50(Raw)) =>
        /\ Len(error_list) = n
        /\ error_list[n].file_name = sbd_message.file.name
        /\ error_list[n].error = Exc("NotImplementedError")
        /\ Len(data_list) <=
             Cardinality({k \in 1..n : /\ IsDecodable(sbd_dict[k])
                                       /\ ~IsType50(sbd_dict[k].content)})

\* Marker and a revision byte the registry does not know.
UnknownRevision(c) ==
    HasMarker(c) /\ Len(c) >= 2 /\ c[2] \notin DOMAIN SENSOR_TYPES

\* C25: reading a Decodable message of an unknown revision fails with the
\* registry's lookup error whatever the length of the message, never with
\* the size error; and a read that returns a record has passed the size
\* validation before unpacking.
C25_LookupThenSizeThenUnpack ==
    sbd_message # None =>
        /\ UnknownRevision(Raw) =>
              /\ ~read(sbd_message).ok
              /\ read(sbd_message).exc = Exc("KeyError")
        /\ (read(sbd_message).ok /\ Truthy(read(sbd_message).val.swift)) =>
              validate_file_size(sbd_message).ok

\* The axis the encoded values of the buffer give: from min to max in steps
\* for the legacy revision, 42 points from min to max for the compact one.
Reconstructed ==
    IF sensor.cls = "SensorType51"
    THEN arange(At(Items, 49), At(Items, 50), At(Items, 51)).val
    ELSE linspace(At(Items, 49), At(Items, 50), 42)

\* C26: the frequency array of a record unpack returns is all 999 only when
\* the encoded min and the encoded max are both 999; when at most one of
\* them is 999 it is the axis the encoded values give.
C26_SentinelOnlyWhenBothEnds999 ==
    (/\ pc = "returned"
     /\ sensor.cls \in {"SensorType51", "SensorType52"}
     /\ ~BothEnds999) =>
        /\ result["frequency"] # NdArray([k \in 1..42 |-> PyNum(999, 1)])
        /\ result["frequency"] = Reconstructed

\* A wire byte read as a signed 8-bit integer.
Signed8(byte) == IF byte >= 128 THEN byte - 256 ELSE byte

\* The place in a compact message of the first byte of each moment array and
\* of the check array: 99 bytes of header, wave statistics, energy spectrum
\* and frequency ends come first, and each array has 42 bytes.
WireStart ==
    [var \in {"a1", "b1", "a2", "b2", "check"} |->
        CASE var = "a1" -> 99
          [] var = "b1" -> 99 + 42
          [] var = "a2" -> 99 + 2 * 42
          [] var = "b2" -> 99 + 3 * 42
          [] var = "check" -> 99 + 4 * 42]

\* C27: in every record SensorType52.unpack returns, for both layouts, each
\* element of a1, b1, a2 and b2 is its wire byte as a signed 8-bit integer
\* over 100, and each element of check is its wire byte as an unsigned 8-bit
\* integer over 10.
C27_MomentsAndCheckAreRescaled ==
    (pc = "returned" /\ sensor.cls = "SensorType52") =>
        \A var \in DOMAIN WireStart, k \in 1..42 :
            result[var].v[k] =
                (IF var = "check"
                 THEN PyNum(sensor.sbd_content[WireStart[var] + k], 10)
                 ELSE PyNum(Signed8(sensor.sbd_content[WireStart[var] + k]), 100))

\* C27: a message of the later layout whose moment and check bytes are 0xFF
\* has been unpacked: -0.01 in a moment array, 25.5 in the check array.
C27_Witness ==
    /\ pc = "returned"
    /\ sensor.cls = "SensorType52"
    /\ definition(sensor) = definition_post_2025
    /\ sensor.sbd_content[WireStart["a1"] + 1] = 255
    /\ result["a1"].v[1] = PyNum(0 - 1, 100)
    /\ result["check"].v[42] = PyNum(255, 10)

\* What _read_sbd gives for one file of the batch read alone.
Alone(k) == _read_sbd(<<sbd_dict[k]>>)

\* C28: when the call is over, every message that gives an ErrorRecord (and
\* a DecodedRecord, if any) when it is read alone has given the same records
\* in the batch, whatever the other messages of the batch are.
C28_MessagesDoNotInterfere ==
    Done =>
        \A k \in 1..Len(sbd_dict) :
            Alone(k).ok =>
                /\ Len(error_list) >= k
                /\ error_list[k] = Alone(k).val.error_list[1]
                /\ \A a \in 1..Len(Alone(k).val.data_list) :
                      \E b \in 1..Len(data_list) :
                          data_list[b] = Alone(k).val.data_list[a]

\* C29: when the mapping view returns, every field array is as long as the
\* list of DecodedRecords, and one permutation of the records gives, at every
\* position, the values of all the field arrays at that position.
C29_RowsAreAPermutationOfTheRecords ==
    (pc = "returned" /\ var_type = "dict") =>
        /\ \A key \in DOMAIN result.data :
              Len(result.data[key]) = Len(data_list)
        /\ \A k \in 1..Len(data_list) :
              DOMAIN data_list[k] = DOMAIN result.data
        /\ \E p \in IndexOrders(Len(data_list)) :
              \A i \in 1..Len(data_list) :
                  \A key \in DOMAIN result.data :
                      result.data[key][i] = data_list[p[i]][key]

\* C29 happens: the mapping view returns two different records, one of each
\* layout, in the other order than they came.
C29_Witness ==
    /\ pc = "returned"
    /\ var_type = "dict"
    /\ Len(data_list) = 2
    /\ data_list[1]["sensor_type"] # data_list[2]["sensor_type"]
    /\ sort_index = <<2, 1>>
    /\ result.data["datetime"] = <<data_list[2]["datetime"], data_list[1]["datetime"]>>
    /\ result.data["datetime"][1] # result.data["datetime"][2]

\* C30: for every message taken from the batch, whatever its bytes, reading
\* sensor_type_id completes, read completes, and the message's ErrorRecord
\* is the last of the error list.
C30_ClassificationIsTotal ==
    sbd_message # None =>
        /\ sensor_type_id(sbd_message).ok
        /\ read(sbd_message).ok
        /\ pc # "raised"
        /\ Len(error_list) = n
        /\ error_list[n] = read(sbd_message).val.error_message

====
